---- MODULE Spec2Model ----
(***************************************************************************)
(* Model of the session orchestration engine of the Microsoft Rewards      *)
(* agent: AISearchAgent (src/ai_search_agent.py) and the worker of         *)
(* SearchAgentGUI (src/gui.py).                                            *)
(*                                                                         *)
(* Text is modelled as a sequence of one-character strings, so that        *)
(* strip(), lower(), len() and the substring test are computed as the      *)
(* code computes them.                                                     *)
(***************************************************************************)
EXTENDS Integers, Sequences, FiniteSets, TLC

----------------------------------------------------------------------------
(* Bounds of the model (not program constants).                            *)

\* cycles per device profile a run is started with (Spec)
MaxCycles == 2
\* run_with_multiple_accounts: accounts in the credentials, proxies in the
\* pool, logins that succeed
MaxAccounts == 2
MaxProxies == 2
\* direct calls of _get_next_proxy
MaxProxyCalls == 5
MaxLogins == 2
\* the GUI: the largest number of cycles and the largest delay typed in
MaxGuiCycles == 3
MaxGuiDelay == 2
\* the number of times the user clicks Start
MaxStarts == 2
\* queries accepted into the histories before the direct calls of
\* generate_search_query stop (SpecApi)
MaxAccepted == 22
\* acceptances during which the service also offers the long (100 and 101
\* character) and the denylisted answers; afterwards it offers the short ones
RichAccepts == 1

----------------------------------------------------------------------------
(* Program constants.                                                      *)

\* a retry loop that runs once more
max_retries_one_more == 3 + 1

\* generate_search_query: max_retries = 3
gen_max_retries == 3
\* generate_search_query: len(history) > 20, history[-20:]
history_limit == 20
\* _validate_query: len(query) < 3
min_query_len == 3
\* _validate_query: len(query) > 100
max_query_len == 100
\* execute_search: max_retries = 3
search_max_retries == 3
\* execute_search: retry_delay = 2
retry_delay == 2

\* self.search_params["categories"]
categories ==
    << <<"t","e","c","h","n","o","l","o","g","y">>,
       <<"c","u","r","r","e","n","t"," ","e","v","e","n","t","s">>,
       <<"p","o","p"," ","c","u","l","t","u","r","e">>,
       <<"s","c","i","e","n","c","e">>,
       <<"e","n","t","e","r","t","a","i","n","m","e","n","t">>,
       <<"s","p","o","r","t","s">>,
       <<"h","e","a","l","t","h">>,
       <<"t","r","a","v","e","l">>,
       <<"f","o","o","d">>,
       <<"h","i","s","t","o","r","y">>,
       <<"n","a","t","u","r","e">>,
       <<"s","p","a","c","e">>,
       <<"e","d","u","c","a","t","i","o","n">>,
       <<"b","u","s","i","n","e","s","s">> >>

\* self.search_params["query_types"]
query_types ==
    << "question", "fact", "news search", "definition",
       "how to", "what is", "why does", "comparison" >>

\* _validate_query: forbidden_terms
forbidden_terms ==
    { <<"e","x","p","l","i","c","i","t">>,
      <<"i","l","l","e","g","a","l">>,
      <<"h","a","c","k">>,
      <<"c","r","a","c","k">> }

----------------------------------------------------------------------------
(* Text helpers: Python's str methods on sequences of characters.          *)

Whitespace == {" ", "\t", "\n"}

\* str.strip(chars): drop the leading and the trailing characters in chars
RECURSIVE LStrip(_, _)
LStrip(s, chars) ==
    IF s # <<>> /\ Head(s) \in chars THEN LStrip(Tail(s), chars) ELSE s

RECURSIVE RStrip(_, _)
RStrip(s, chars) ==
    IF s # <<>> /\ s[Len(s)] \in chars
    THEN RStrip(SubSeq(s, 1, Len(s) - 1), chars)
    ELSE s

Strip(s, chars) == RStrip(LStrip(s, chars), chars)

LowerChar(c) ==
    CASE c = "A" -> "a" [] c = "B" -> "b" [] c = "C" -> "c" [] c = "D" -> "d"
      [] c = "E" -> "e" [] c = "F" -> "f" [] c = "G" -> "g" [] c = "H" -> "h"
      [] c = "I" -> "i" [] c = "J" -> "j" [] c = "K" -> "k" [] c = "L" -> "l"
      [] c = "M" -> "m" [] c = "N" -> "n" [] c = "O" -> "o" [] c = "P" -> "p"
      [] c = "Q" -> "q" [] c = "R" -> "r" [] c = "S" -> "s" [] c = "T" -> "t"
      [] c = "U" -> "u" [] c = "V" -> "v" [] c = "W" -> "w" [] c = "X" -> "x"
      [] c = "Y" -> "y" [] c = "Z" -> "z" [] OTHER -> c

\* str.lower()
Lower(s) == [i \in 1..Len(s) |-> LowerChar(s[i])]

\* term in s
Contains(s, term) ==
    \E i \in 1..(Len(s) - Len(term) + 1) : SubSeq(s, i, i + Len(term) - 1) = term

\* the last n elements of s: s[-n:]
LastN(s, n) == IF Len(s) > n THEN SubSeq(s, Len(s) - n + 1, Len(s)) ELSE s

\* 2 ** n
RECURSIVE Pow2(_)
Pow2(n) == IF n = 0 THEN 1 ELSE 2 * Pow2(n - 1)

Digit(d) == <<"0","1","2","3","4","5","6","7","8","9">>[d + 1]

\* n copies of the character c
Repeat(c, n) == [i \in 1..n |-> c]

----------------------------------------------------------------------------
(* Query Generator: _validate_query and one iteration of the retry loop of *)
(* generate_search_query.                                                  *)

\* a validator that forgets the upper length bound
validate_query_no_upper(query) ==
    /\ ~(query = <<>> \/ Len(query) < min_query_len)
    /\ ~(\E term \in forbidden_terms : Contains(Lower(query), term))

_validate_query(query) ==
    /\ ~(query = <<>> \/ Len(query) < min_query_len)
    /\ ~(Len(query) > max_query_len)
    /\ ~(\E term \in forbidden_terms : Contains(Lower(query), term))

\* response.text.strip().strip('"').strip("'")
clean_response(text) == Strip(Strip(Strip(text, Whitespace), {"\""}), {"'"})

\* a trim that keeps the oldest entries: history[:20]
trim_history_oldest(history) ==
    IF Len(history) > history_limit THEN SubSeq(history, 1, history_limit) ELSE history

\* if len(history) > 20: history = history[-20:]
trim_history(history) ==
    IF Len(history) > history_limit THEN LastN(history, history_limit) ELSE history

\* the exceptions "except Exception" catches: every error of the service
\* (generate_content raising) and of reading a blocked answer (response.text
\* raising ValueError)
gen_except_narrow(kind) == kind = "error"

gen_except_catches(kind) == kind \in {"error", "blocked"}

\* fallback_query = f"what is {random.choice(categories)}"
fallback_query(pick) == <<"w","h","a","t"," ","i","s"," ">> \o categories[pick]

\* an iteration that appends a validated query to the desktop history only
gen_iteration_pc_only(attempt, response, cat, qt, pc_hist, mobile_hist) ==
    IF response.kind # "text"
    THEN [ends |-> IF gen_except_catches(response.kind) THEN "continue" ELSE "raise",
          outcome |-> "error",
          query |-> <<>>, category |-> <<>>, query_type |-> "",
          pc_hist |-> pc_hist, mobile_hist |-> mobile_hist,
          sleep |-> IF gen_except_catches(response.kind) /\ attempt < gen_max_retries - 1
                    THEN Pow2(attempt) ELSE 0]
    ELSE LET query == clean_response(response.text) IN
         IF _validate_query(query)
         THEN [ends |-> "return", outcome |-> "valid",
               query |-> query, category |-> categories[cat],
               query_type |-> query_types[qt],
               pc_hist |-> trim_history(Append(pc_hist, query)),
               mobile_hist |-> mobile_hist,
               sleep |-> 0]
         ELSE [ends |-> "continue", outcome |-> "invalid",
               query |-> <<>>, category |-> <<>>, query_type |-> "",
               pc_hist |-> pc_hist, mobile_hist |-> mobile_hist,
               sleep |-> 0]

\* an iteration that appends the answer to the histories before it is
\* validated
gen_iteration_appends_first(attempt, response, cat, qt, pc_hist, mobile_hist) ==
    IF response.kind # "text"
    THEN [ends |-> IF gen_except_catches(response.kind) THEN "continue" ELSE "raise",
          outcome |-> "error",
          query |-> <<>>, category |-> <<>>, query_type |-> "",
          pc_hist |-> pc_hist, mobile_hist |-> mobile_hist,
          sleep |-> IF gen_except_catches(response.kind) /\ attempt < gen_max_retries - 1
                    THEN Pow2(attempt) ELSE 0]
    ELSE LET query == clean_response(response.text) IN
         IF _validate_query(query)
         THEN [ends |-> "return", outcome |-> "valid",
               query |-> query, category |-> categories[cat],
               query_type |-> query_types[qt],
               pc_hist |-> trim_history(Append(pc_hist, query)),
               mobile_hist |-> trim_history(Append(mobile_hist, query)),
               sleep |-> 0]
         ELSE [ends |-> "continue", outcome |-> "invalid",
               query |-> <<>>, category |-> <<>>, query_type |-> "",
               pc_hist |-> trim_history(Append(pc_hist, query)),
               mobile_hist |-> trim_history(Append(mobile_hist, query)),
               sleep |-> 0]

\* One iteration of "for attempt in range(max_retries)".  response is what the
\* text-generation service does on this call, cat and qt are the draws of
\* random.choice.  The result says how the iteration ends: "return" (a
\* validated query), "continue" (next attempt) or "raise".
gen_iteration(attempt, response, cat, qt, pc_hist, mobile_hist) ==
    IF response.kind # "text"
    THEN [ends |-> IF gen_except_catches(response.kind) THEN "continue" ELSE "raise",
          outcome |-> "error",
          query |-> <<>>, category |-> <<>>, query_type |-> "",
          pc_hist |-> pc_hist, mobile_hist |-> mobile_hist,
          sleep |-> IF gen_except_catches(response.kind) /\ attempt < gen_max_retries - 1
                    THEN Pow2(attempt) ELSE 0]
    ELSE LET query == clean_response(response.text) IN
         IF _validate_query(query)
         THEN [ends |-> "return", outcome |-> "valid",
               query |-> query, category |-> categories[cat],
               query_type |-> query_types[qt],
               pc_hist |-> trim_history(Append(pc_hist, query)),
               mobile_hist |-> trim_history(Append(mobile_hist, query)),
               sleep |-> 0]
         ELSE [ends |-> "continue", outcome |-> "invalid",
               query |-> <<>>, category |-> <<>>, query_type |-> "",
               pc_hist |-> pc_hist, mobile_hist |-> mobile_hist,
               sleep |-> 0]

----------------------------------------------------------------------------
(* Session Handle: one iteration of the retry loop of execute_search.      *)

\* a retry loop that catches TimeoutException only
search_except_timeout_only(kind) == kind = "timeout"

\* "except TimeoutException" and "except Exception as e": every failure of
\* an attempt is caught
search_except_catches(kind) == kind \in {"timeout", "error", "session"}

\* One iteration of "for attempt in range(max_retries)".  outcome is what the
\* browser session does with the attempt: "ok" (results shown), "timeout"
\* (TimeoutException), "error" (another exception) or "session" (the session
\* is unusable: a WebDriverException such as "invalid session id").
search_iteration(attempt, outcome) ==
    IF outcome = "ok"
    THEN [ends |-> "return", success |-> TRUE, url |-> "current_url", sleep |-> 0]
    ELSE IF search_except_catches(outcome)
         THEN [ends |-> "continue", success |-> FALSE, url |-> "", sleep |-> retry_delay]
         ELSE [ends |-> "raise", success |-> FALSE, url |-> "", sleep |-> 0]

\* return False, "error: all retries failed", execution_time
all_retries_failed == "error: all retries failed"

----------------------------------------------------------------------------
(* State.                                                                  *)

VARIABLES
    config,                 \* self.config: max_cycles, min_delay, max_delay
    sessions,               \* every browser session opened so far, by id
    pc_driver,              \* self.pc_driver: the id of a session, 0 for None
    mobile_driver,          \* self.mobile_driver: the id of a session, 0 for None
    pc_search_history,      \* self.pc_search_history
    mobile_search_history,  \* self.mobile_search_history
    csv_rows,               \* the rows appended to self.csv_filename
    pc,                     \* position of the main thread
    caller,                 \* who called generate_search_query / execute_search
    gen,                    \* locals of generate_search_query
    gen_result,             \* what generate_search_query returned
    srch,                   \* locals of execute_search
    search_result,          \* what execute_search returned
    proxies,                \* self.proxies
    current_proxy_index,    \* self.current_proxy_index, -1 while the attribute is not set
    credentials,            \* self.credentials["accounts"], <<>> standing for None too
    acct,                   \* locals of run_with_multiple_accounts
    gui,                    \* the fields of SearchAgentGUI
    message_queue,          \* self.message_queue
    run,                    \* arguments and locals of run
    exc,                    \* the exception the cycle-level handler has caught
    cyc,                    \* what the current cycle has done so far
    halted,                 \* the device profiles whose loop a failed recovery has ended
    accepted,               \* every query appended to the histories since they were last emptied
    obs                     \* what an observer of the program has seen so far

agentVars == <<config, sessions, pc_driver, mobile_driver, pc_search_history,
               mobile_search_history, csv_rows>>
genVars == <<gen, gen_result>>
searchVars == <<srch, search_result>>
runVars == <<run, exc, cyc, halted>>
acctVars == <<proxies, current_proxy_index, credentials, acct>>
guiVars == <<gui, message_queue>>
vars == <<agentVars, pc, caller, genVars, searchVars, runVars, acctVars, guiVars,
          accepted, obs>>

\* proxy=None
NoProxy == [host |-> "none"]
\* a quit that leaves the session open
quit_nothing(session) == session
\* driver.quit(): the session is gone, whatever state it was in
quit(session) == [session EXCEPT !.alive = FALSE, !.quits = @ + 1]
\* a session as seleniumwire_webdriver.Chrome(...) returns it
\* owner is the index of the account the session was opened for (0: none),
\* replaces the session a recovery opened it in place of (0: none)
Session(mode, proxy) ==
    [mode |-> mode, proxy |-> proxy, alive |-> TRUE, quits |-> 0, replaces |-> 0,
     owner |-> 0]

\* the locals of run; defaulted says that run computed the split itself and
\* float that the two counts are floats; begun counts the cycles begun per
\* device profile,
\* search_fault and audit_fault say whether a search attempt or a write of the
\* audit file has failed during this run
RunIdle == [caller |-> "direct", defaulted |-> FALSE, float |-> FALSE,
            pc_cycles |-> 0, mobile_cycles |-> 0,
            mode |-> "pc", cycle |-> 0,
            successful_searches |-> 0, failed_searches |-> 0,
            begun |-> [pc |-> 0, mobile |-> 0],
            search_fault |-> FALSE, audit_fault |-> FALSE]
\* what the current cycle has done: rows written, increments of the two
\* counters, recovery attempts, failures seen, seconds of delay, the
\* exception its handler has caught, the sessions it has quit
CycleIdle == [rows |-> 0, succ_incr |-> 0, fail_incr |-> 0, recoveries |-> 0,
              session_error |-> FALSE, search_failed |-> FALSE,
              audit_fault |-> FALSE, delay |-> 0, caught |-> "none", quits |-> 0]
\* the locals of run_with_multiple_accounts: the index of the account, the
\* device profile being processed, the proxy selected for the account, what
\* the login for the profile returned; logins counts the logins that have
\* succeeded, fault names the call that raised out of the method, page what
\* the sign-in pages did at the login for the profile
AcctIdle == [i |-> 0, stage |-> "none", proxy |-> NoProxy, logins |-> 0,
             logged_in |-> FALSE, fault |-> "none", page |-> "none"]

\* SearchAgentGUI.__init__ and setup_gui; the settings are what the user
\* has typed, starts counts the clicks on Start, test is the position of
\* the thread run_test that test_setup has started, later the position of
\* the thread run_agent that a second Start has started
GuiIdle == [is_running |-> FALSE, start_button |-> "normal",
            stop_button |-> "disabled", status_var |-> "Ready",
            progress_var |-> 0, api_key_var |-> "", cycles_var |-> 0,
            min_delay_var |-> 0, max_delay_var |-> 0, starts |-> 0,
            test |-> "none", later |-> "none"]

\* nothing observed yet: returned lists what the calls of _get_next_proxy
\* have returned, summaries counts the final summaries printed; stop_seen
\* says that Stop was clicked while the worker followed was alive, and
\* after_stop counts the cycles that worker has begun and the ticks of a
\* countdown it has taken since; key_missing and proxies_unread say what the
\* construction of the agent met: no usable GEMINI_API_KEY, a proxy file
\* that could not be opened; fatal names the failure that ended the start-up
\* of main, credentials_unread says that the credential file could not be
\* opened, interrupted that KeyboardInterrupt reached main, and exit_code is
\* the exit code of the process (-1 while it runs); direct holds what of the
\* window a worker thread of the GUI has read or written itself, completes
\* counts the complete messages the worker followed has put
ObsIdle == [returned |-> <<>>, summaries |-> 0, stop_seen |-> FALSE, after_stop |-> 0,
            key_missing |-> FALSE, proxies_unread |-> FALSE,
            fatal |-> "none", credentials_unread |-> FALSE, interrupted |-> FALSE,
            exit_code |-> -1, direct |-> {}, completes |-> 0]

NoResult == [status |-> "none"]
GenIdle == [attempt |-> 0, calls |-> 0, sleeps |-> <<>>, outcomes |-> <<>>]
SearchIdle == [mode |-> "pc", attempt |-> 0, sleeps |-> <<>>, outcomes |-> <<>>]

\* load_config: the MAX_SEARCH_CYCLES, MIN_DELAY and MAX_DELAY of the
\* environment, read with int() and not validated
Configs ==
    { [max_cycles |-> MaxCycles, min_delay |-> 1, max_delay |-> 2],
      [max_cycles |-> MaxCycles, min_delay |-> 2, max_delay |-> 1] }

\* nothing is running yet: no message is queued, no proxy has been selected,
\* no account is being processed
Quiet ==
    /\ pc = "idle"
    /\ obs = ObsIdle
    /\ message_queue = <<>>
    /\ current_proxy_index = -1
    /\ acct = AcctIdle

\* __init__: both browsers are opened without a proxy, the histories are
\* empty, _setup_csv_logging has written the header row only
Constructed ==
    /\ Quiet
    /\ gui = GuiIdle
    /\ config \in Configs
    /\ sessions = <<Session("pc", NoProxy), Session("mobile", NoProxy)>>
    /\ pc_driver = 1
    /\ mobile_driver = 2
    /\ pc_search_history = <<>>
    /\ mobile_search_history = <<>>
    /\ csv_rows = <<>>
    /\ caller = "direct"
    /\ gen = GenIdle
    /\ gen_result = NoResult
    /\ srch = SearchIdle
    /\ search_result = NoResult
    /\ run = RunIdle
    /\ exc = "none"
    /\ cyc = CycleIdle
    /\ halted = {}
    /\ accepted = <<>>

\* load_proxies and load_credentials: json is never imported, so json.load
\* raises NameError, which both methods catch: the proxies are [] and the
\* credentials None
InitAgent ==
    /\ Constructed
    /\ proxies = <<>>
    /\ credentials = <<>>

----------------------------------------------------------------------------
(* The text-generation service.  What it answers is not decided by the     *)
(* program; the model offers these answers.                                *)

\* a query no earlier answer gave: q01, q02, ... (3 characters)
Fresh(k) == <<"q", Digit(k \div 10), Digit(k % 10)>>

\* the answer as the service sends it: in quotes, with whitespace around
Quoted(text) == <<" ", "\"">> \o text \o <<"\"", "\n">>

\* the answers offered inside a cycle of run: an error, or a fresh query
CycleAnswers(k) ==
    { [kind |-> "error"],
      [kind |-> "text", text |-> Quoted(Fresh(k))] }

\* the further answers offered to a direct call: too short (2 characters) ...
ShortAnswers(k) ==
    CycleAnswers(k) \cup { [kind |-> "text", text |-> <<"'", "o", "k", "'">>] }

\* ... and, during the first RichAccepts acceptances: blocked, empty, 100
\* characters, 101 characters, denylisted
LongAnswers(k) ==
    { [kind |-> "blocked"],
      [kind |-> "text", text |-> <<" ", "\t">>],
      [kind |-> "text", text |-> Fresh(k) \o Repeat("x", max_query_len - 3)],
      [kind |-> "text", text |-> Quoted(Fresh(k) \o Repeat("x", max_query_len - 2))],
      [kind |-> "text", text |-> <<"H","o","w"," ","t","o"," ","H","A","C","K"," ","w","i","f","i">>],
      [kind |-> "text", text |-> <<"b","e","s","t"," ","c","r","a","c","k","e","r","s">>] }

Responses ==
    LET k == Len(accepted) + 1 IN
    IF caller # "direct" THEN CycleAnswers(k)
    ELSE IF Len(accepted) < RichAccepts
         THEN ShortAnswers(k) \cup LongAnswers(k)
         ELSE ShortAnswers(k)

\* the draws of random.choice the model offers for the category and the
\* query type of an attempt, and for the category of the fallback query:
\* inside a cycle one draw each, for a direct call several
CategoryPicks == IF caller = "direct" THEN {1, 2} ELSE {2}
QueryTypePicks == IF caller = "direct" THEN {1, 5} ELSE {5}
FallbackPicks == IF caller = "direct" THEN 1..Len(categories) ELSE {9}

----------------------------------------------------------------------------
(* generate_search_query, one attempt per step.                            *)

\* the call begins: "for attempt in range(max_retries)" with attempt = 0
BeginGenerate(who) ==
    /\ pc' = "generate"
    /\ caller' = who
    /\ gen' = GenIdle
    /\ gen_result' = NoResult

\* one iteration of the retry loop
GenAttempt ==
    /\ pc = "generate"
    /\ gen.attempt < gen_max_retries
    /\ \E response \in Responses, cat \in CategoryPicks, qt \in QueryTypePicks :
         LET it == gen_iteration(gen.attempt, response, cat, qt,
                                 pc_search_history, mobile_search_history)
             locals == [attempt |-> gen.attempt + 1,
                        calls |-> gen.calls + 1,
                        sleeps |-> IF it.sleep > 0 THEN Append(gen.sleeps, it.sleep)
                                   ELSE gen.sleeps,
                        outcomes |-> Append(gen.outcomes, it.outcome)]
         IN /\ gen' = locals
            /\ pc_search_history' = it.pc_hist
            /\ mobile_search_history' = it.mobile_hist
            /\ accepted' = IF it.ends = "return" THEN Append(accepted, it.query)
                           ELSE accepted
            /\ CASE it.ends = "return" ->
                     /\ gen_result' = [status |-> "returned", query |-> it.query,
                                       category |-> it.category,
                                       query_type |-> it.query_type]
                     /\ pc' = "generate_done"
                 [] it.ends = "raise" ->
                     /\ gen_result' = [status |-> "raised"]
                     /\ pc' = "generate_done"
                 [] OTHER ->
                     /\ gen_result' = gen_result
                     /\ pc' = pc
    /\ UNCHANGED <<obs, guiVars, acctVars, config, sessions, pc_driver, mobile_driver, csv_rows, caller,
                   searchVars, runVars>>

\* the loop is exhausted: the fallback query
GenFallback ==
    /\ pc = "generate"
    /\ gen.attempt >= gen_max_retries
    /\ \E pick \in FallbackPicks :
         gen_result' = [status |-> "returned", query |-> fallback_query(pick),
                        category |-> <<"g","e","n","e","r","a","l">>,
                        query_type |-> "fallback"]
    /\ pc' = "generate_done"
    /\ UNCHANGED <<obs, guiVars, acctVars, agentVars, caller, gen, searchVars, runVars, accepted>>

----------------------------------------------------------------------------
(* execute_search, one attempt per step.                                   *)

\* driver = self.pc_driver if mode == "pc" else self.mobile_driver
DriverOf(mode) == IF mode = "pc" THEN pc_driver ELSE mobile_driver

\* what a session can do with an attempt: a session that is no longer alive
\* (crashed, or quit) fails every command, and so does None
SearchOutcomes(driver) ==
    IF driver # 0 /\ sessions[driver].alive
    THEN IF caller = "direct" THEN {"ok", "timeout", "error", "session"}
         ELSE {"ok", "timeout", "session"}
    ELSE {"session"}

BeginSearch(who, mode) ==
    /\ pc' = "search"
    /\ caller' = who
    /\ srch' = [SearchIdle EXCEPT !.mode = mode]
    /\ search_result' = NoResult

\* one iteration of the retry loop
SearchAttempt ==
    /\ pc = "search"
    /\ srch.attempt < search_max_retries
    /\ \E outcome \in SearchOutcomes(DriverOf(srch.mode)) :
         LET it == search_iteration(srch.attempt, outcome)
             driver == DriverOf(srch.mode)
         IN /\ srch' = [srch EXCEPT !.attempt = @ + 1,
                                    !.sleeps = IF it.sleep > 0 THEN Append(@, it.sleep) ELSE @,
                                    !.outcomes = Append(@, outcome)]
            /\ sessions' = IF outcome = "session" /\ driver # 0
                           THEN [sessions EXCEPT ![driver].alive = FALSE]
                           ELSE sessions
            /\ cyc' = [cyc EXCEPT !.session_error = @ \/ outcome = "session",
                                  !.search_failed = @ \/ outcome # "ok"]
            /\ run' = [run EXCEPT !.search_fault = @ \/ outcome # "ok"]
            /\ CASE it.ends = "return" ->
                     /\ search_result' = [status |-> "returned", success |-> TRUE,
                                          url |-> it.url]
                     /\ pc' = "search_done"
                 [] it.ends = "raise" ->
                     /\ search_result' = [status |-> "raised", text |-> outcome]
                     /\ pc' = "search_done"
                 [] OTHER ->
                     /\ search_result' = search_result
                     /\ pc' = pc
    /\ UNCHANGED <<obs, guiVars, acctVars, config, pc_driver, mobile_driver, pc_search_history,
                   mobile_search_history, csv_rows, caller, genVars, exc,
                   halted, accepted>>

\* all retries failed
SearchGiveUp ==
    /\ pc = "search"
    /\ srch.attempt >= search_max_retries
    /\ search_result' = [status |-> "returned", success |-> FALSE,
                         url |-> all_retries_failed]
    /\ pc' = "search_done"
    /\ UNCHANGED <<obs, guiVars, acctVars, agentVars, caller, genVars, srch, runVars, accepted>>

----------------------------------------------------------------------------
(* SpecApi: the methods called directly on a constructed agent (as         *)
(* test_setup of the GUI calls generate_search_query).                     *)

CallGenerate ==
    /\ pc = "idle"
    /\ Len(accepted) < MaxAccepted
    /\ BeginGenerate("direct")
    /\ UNCHANGED <<obs, guiVars, acctVars, agentVars, searchVars, runVars, accepted>>

CallSearch ==
    /\ pc = "idle"
    /\ \E mode \in {"pc", "mobile"} : BeginSearch("direct", mode)
    /\ UNCHANGED <<obs, guiVars, acctVars, agentVars, genVars, runVars, accepted>>

\* the direct caller takes the result; the locals of the call are gone
ApiReturn ==
    /\ pc \in {"generate_done", "search_done"}
    /\ caller = "direct"
    /\ pc' = "idle"
    /\ gen' = GenIdle
    /\ gen_result' = NoResult
    /\ srch' = SearchIdle
    /\ search_result' = NoResult
    /\ cyc' = CycleIdle
    /\ run' = RunIdle
    /\ UNCHANGED <<obs, guiVars, acctVars, agentVars, caller, exc, halted, accepted>>

NextApi ==
    \/ CallGenerate
    \/ GenAttempt
    \/ GenFallback
    \/ CallSearch
    \/ SearchAttempt
    \/ SearchGiveUp
    \/ ApiReturn

SpecApi == InitAgent /\ [][NextApi]_vars

----------------------------------------------------------------------------
(* Cycle Executor: run(pc_cycles, mobile_cycles).                          *)

\* the bound of the loop of the current device profile
CyclesOf(mode) == IF mode = "pc" THEN run.pc_cycles ELSE run.mobile_cycles

\* what _log_search_result can do: write the row, or raise the error of the
\* file system, whose text is the operating system's and may or may not name
\* a session or a driver
AuditOutcomes == {"ok", "other", "driver", "session"}

\* str(e): the text of the exceptions that reach the handler of a cycle.
\* "empty_range" is the ValueError of random.randint, "other", "driver" and
\* "session" are errors of the operating system on the audit file,
\* "generate" is an exception that leaves generate_search_query
str(e) ==
    CASE e = "empty_range" ->
          <<"e","m","p","t","y"," ","r","a","n","g","e"," ","i","n"," ","r","a",
            "n","d","r","a","n","g","e","(","2",","," ","2",")">>
      [] e = "other" ->
          <<"[","E","r","r","n","o"," ","2","8","]"," ","N","o"," ","s","p","a",
            "c","e"," ","l","e","f","t"," ","o","n"," ","d","e","v",
            "i","c","e">>
      [] e = "driver" ->
          <<"[","E","r","r","n","o"," ","4","9","]"," ","P","r","o","t","o","c",
            "o","l"," ","d","r","i","v","e","r"," ","n","o","t"," ",
            "a","t","t","a","c","h","e","d">>
      [] e = "session" ->
          <<"[","W","i","n","E","r","r","o","r"," ","1","3","1","2","]"," ","A",
            " ","s","p","e","c","i","f","i","e","d"," ","l","o","g",
            "o","n"," ","s","e","s","s","i","o","n"," ","d","o","e",
            "s"," ","n","o","t"," ","e","x","i","s","t">>
      [] e = "generate" ->
          <<"l","i","s","t"," ","i","n","d","e","x"," ","o","u","t"," ","o","f",
            " ","r","a","n","g","e">>
      [] OTHER -> <<>>

\* a handler that looks for "session" only
names_session_only(text) == Contains(Lower(text), <<"s","e","s","s","i","o","n">>)

\* "driver" in str(e).lower() or "session" in str(e).lower()
is_session_error(text) ==
    \/ Contains(Lower(text), <<"d","r","i","v","e","r">>)
    \/ Contains(Lower(text), <<"s","e","s","s","i","o","n">>)

\* the exceptions that can reach the handler of a cycle, and those among
\* them whose text sends the handler into the recovery
ExceptionKinds == {"empty_range", "other", "driver", "session", "generate"}
session_errors == {e \in ExceptionKinds : is_session_error(str(e))}

\* a loop that goes on after a failed recovery
continue_after_failed_recovery == FALSE

\* if not self._recover_from_browser_crash(mode): break
break_after_failed_recovery == TRUE

\* a loop that takes the index of the failed cycle again after a recovery
retry_index(cycle) == cycle - 1

\* after the except clause the for statement goes on with the next index:
\* the index of the failed cycle is not taken again
index_after_recovery(cycle) == cycle

\* _recover_from_browser_crash: self._initialize_pc_browser() and
\* self._initialize_mobile_browser() are called without a proxy
recovery_proxy(driver) == NoProxy

\* a break that leaves run altogether, through the summary
leave_run ==
    /\ run' = run
    /\ pc' = "summary"

\* leave the loop of the current device profile: the mobile loop follows the
\* pc loop, the final summary follows the mobile loop
LeaveLoop ==
    IF run.mode = "pc"
    THEN /\ run' = [run EXCEPT !.mode = "mobile", !.cycle = 0]
         /\ pc' = "loop"
    ELSE /\ run' = run
         /\ pc' = "summary"

\* run(pc_cycles, mobile_cycles) is called with both counts given
RunStart ==
    /\ pc = "idle"
    /\ \E p \in 0..MaxCycles, m \in 0..MaxCycles :
         run' = [RunIdle EXCEPT !.pc_cycles = p, !.mobile_cycles = m]
    /\ pc' = "loop"
    /\ cyc' = CycleIdle
    /\ UNCHANGED <<obs, guiVars, acctVars, agentVars, caller, genVars, searchVars, exc, halted, accepted>>

\* self.config['max_cycles'] // 1.6875: the floor of T / (27/16), as a float
default_pc_cycles(T) == (16 * T) \div 27

\* run() is called with neither count given: pc_cycles is the float that //
\* returns, mobile_cycles the int minus that float, a float too
RunStartDefault ==
    /\ pc = "idle"
    /\ LET T == config.max_cycles
           p == default_pc_cycles(T)
       IN run' = [RunIdle EXCEPT !.defaulted = TRUE, !.float = TRUE,
                                 !.pc_cycles = p, !.mobile_cycles = T - p]
    /\ pc' = "loop"
    /\ cyc' = CycleIdle
    /\ UNCHANGED <<obs, guiVars, acctVars, agentVars, caller, genVars, searchVars, exc,
                   halted, accepted>>

\* range(1, cycles + 1) takes integers only
range_accepts(r) == ~r.float

\* "if cycles > 0: for cycle in range(1, cycles + 1)" with a float count:
\* range raises TypeError, outside the try of the cycle, and run is left
RunRangeError ==
    /\ pc = "loop"
    /\ run.cycle = 0
    /\ CyclesOf(run.mode) > 0
    /\ ~range_accepts(run)
    /\ pc' = "run_raised"
    /\ UNCHANGED <<obs, guiVars, acctVars, agentVars, caller, genVars, searchVars,
                   runVars, accepted>>

\* for cycle in range(1, cycles + 1): the next cycle begins with
\* generate_search_query
CycleBegin ==
    /\ pc = "loop"
    /\ run.cycle < CyclesOf(run.mode)
    /\ range_accepts(run)
    /\ run' = [run EXCEPT !.cycle = @ + 1, !.begun[run.mode] = @ + 1]
    /\ cyc' = CycleIdle
    /\ BeginGenerate("run")
    /\ UNCHANGED <<obs, guiVars, acctVars, agentVars, searchVars, exc, halted, accepted>>

\* the range is exhausted (or the count is not > 0)
LoopEnd ==
    /\ pc = "loop"
    /\ run.cycle >= CyclesOf(run.mode)
    /\ LeaveLoop
    /\ UNCHANGED <<obs, guiVars, acctVars, agentVars, caller, genVars, searchVars, exc, cyc, halted, accepted>>

\* success, url, execution_time = self.execute_search(query, mode)
CycleSearch ==
    /\ pc = "generate_done"
    /\ caller = "run"
    /\ gen' = GenIdle
    /\ IF gen_result.status = "raised"
       THEN /\ pc' = "except"
            /\ exc' = "generate"
            /\ UNCHANGED <<guiVars, acctVars, caller, searchVars>>
       ELSE /\ BeginSearch("run", run.mode)
            /\ exc' = exc
    /\ UNCHANGED <<obs, guiVars, acctVars, agentVars, gen_result, run, cyc, halted, accepted>>

\* self._log_search_result(...), then the counters, then the choice between
\* the delay and the next cycle
CycleRecord ==
    /\ pc = "search_done"
    /\ caller = "run"
    /\ srch' = SearchIdle
    /\ search_result' = NoResult
    /\ gen_result' = NoResult
    /\ IF search_result.status = "raised"
       THEN /\ pc' = "except"
            /\ exc' = search_result.text
            /\ UNCHANGED <<guiVars, acctVars, csv_rows, run, cyc>>
       ELSE \E written \in AuditOutcomes :
              IF written = "ok"
              THEN /\ csv_rows' = Append(csv_rows,
                                     [query |-> gen_result.query,
                                      url |-> search_result.url,
                                      status |-> IF search_result.success
                                                 THEN "success" ELSE "failed",
                                      category |-> gen_result.category,
                                      query_type |-> gen_result.query_type,
                                      mode |-> run.mode])
                   /\ run' = IF search_result.success
                             THEN [run EXCEPT !.successful_searches = @ + 1]
                             ELSE [run EXCEPT !.failed_searches = @ + 1]
                   /\ cyc' = IF search_result.success
                             THEN [cyc EXCEPT !.rows = @ + 1, !.succ_incr = @ + 1]
                             ELSE [cyc EXCEPT !.rows = @ + 1, !.fail_incr = @ + 1]
                   /\ pc' = IF run.cycle < CyclesOf(run.mode) THEN "delay" ELSE "loop"
                   /\ exc' = exc
              ELSE /\ pc' = "except"
                   /\ exc' = written
                   /\ run' = [run EXCEPT !.audit_fault = TRUE]
                   /\ cyc' = [cyc EXCEPT !.audit_fault = TRUE]
                   /\ csv_rows' = csv_rows
    /\ UNCHANGED <<obs, guiVars, acctVars, config, sessions, pc_driver, mobile_driver, pc_search_history,
                   mobile_search_history, caller, gen, halted, accepted>>

\* _random_delay: random.randint(min_delay, max_delay) raises ValueError for
\* an empty range; otherwise the countdown runs and the next cycle follows
CycleDelay ==
    /\ pc = "delay"
    /\ IF config.min_delay > config.max_delay
       THEN /\ pc' = "except"
            /\ exc' = "empty_range"
            /\ cyc' = cyc
       ELSE /\ \E delay \in config.min_delay..config.max_delay :
                 cyc' = [cyc EXCEPT !.delay = delay]
            /\ pc' = "loop"
            /\ exc' = exc
    /\ UNCHANGED <<obs, guiVars, acctVars, agentVars, caller, genVars, searchVars, run, halted, accepted>>

\* except Exception as e: failed_searches += 1, then the recovery if the
\* text of e names a driver or a session
CycleExcept ==
    /\ pc = "except"
    /\ run' = [run EXCEPT !.failed_searches = @ + 1]
    /\ cyc' = [cyc EXCEPT !.fail_incr = @ + 1, !.caught = exc]
    /\ pc' = IF exc \in session_errors THEN "recover" ELSE "loop"
    /\ exc' = "none"
    /\ UNCHANGED <<obs, guiVars, acctVars, agentVars, caller, genVars, searchVars, halted, accepted>>

\* _recover_from_browser_crash(mode): quit the old session (whatever quit
\* does), wait, open a new one; False if opening raises
Recover ==
    /\ pc = "recover"
    /\ \E opened \in BOOLEAN :
         LET driver == DriverOf(run.mode)
             closed == IF driver = 0 THEN sessions
                       ELSE [sessions EXCEPT ![driver] = quit(@)]
             new == Len(sessions) + 1
         IN IF opened
            THEN /\ sessions' = Append(closed,
                                       [Session(run.mode, recovery_proxy(driver))
                                          EXCEPT !.replaces = driver,
                                                 !.owner = IF driver = 0 THEN 0
                                                           ELSE sessions[driver].owner])
                 /\ pc_driver' = IF run.mode = "pc" THEN new ELSE pc_driver
                 /\ mobile_driver' = IF run.mode = "pc" THEN mobile_driver ELSE new
                 /\ pc' = "loop"
                 /\ run' = [run EXCEPT !.cycle = index_after_recovery(@)]
                 /\ halted' = halted
            ELSE /\ sessions' = closed
                 /\ UNCHANGED <<guiVars, acctVars, pc_driver, mobile_driver>>
                 /\ IF break_after_failed_recovery
                    THEN LeaveLoop
                    ELSE pc' = "loop" /\ run' = run
                 /\ halted' = halted \cup {[mode |-> run.mode, cycle |-> run.cycle,
                                             begun |-> run.begun[run.mode],
                                             fail_incr |-> cyc.fail_incr]}
    /\ cyc' = [cyc EXCEPT !.recoveries = @ + 1,
                          !.quits = IF DriverOf(run.mode) = 0 THEN @ ELSE @ + 1]
    /\ UNCHANGED <<obs, guiVars, acctVars, config, pc_search_history, mobile_search_history, csv_rows,
                   caller, genVars, searchVars, exc, accepted>>

\* self._print_final_summary(successful_searches, failed_searches, total)
Summary ==
    /\ pc = "summary"
    /\ pc' = IF run.caller = "direct" THEN "run_done"
             ELSE IF acct.stage = "pc" THEN "acct_close_pc" ELSE "acct_close_mobile"
    /\ obs' = [obs EXCEPT !.summaries = @ + 1]
    /\ UNCHANGED <<guiVars, acctVars, agentVars, caller, genVars, searchVars, runVars, accepted>>

Next ==
    \/ RunStart
    \/ RunStartDefault
    \/ RunRangeError
    \/ CycleBegin
    \/ LoopEnd
    \/ GenAttempt
    \/ GenFallback
    \/ CycleSearch
    \/ SearchAttempt
    \/ SearchGiveUp
    \/ CycleRecord
    \/ CycleDelay
    \/ CycleExcept
    \/ Recover
    \/ Summary

Spec == InitAgent /\ [][Next]_vars

\* run is executed by one thread, which takes its next step as long as it
\* has one
SpecFair == Spec /\ WF_vars(Next)

----------------------------------------------------------------------------
(* run_with_multiple_accounts, called on an agent whose proxies and        *)
(* credentials attributes hold what the caller has put there (the agent's  *)
(* own loaders leave them empty).                                          *)

ProxyList == << [host |-> "p1"], [host |-> "p2"], [host |-> "p3"] >>
AccountList == << [email |-> "a1"], [email |-> "a2"], [email |-> "a3"] >>

InitAccounts ==
    /\ Constructed
    /\ \E n \in 0..MaxProxies : proxies = SubSeq(ProxyList, 1, n)
    /\ \E n \in 0..MaxAccounts : credentials = SubSeq(AccountList, 1, n)

\* a rotation that never advances
next_proxy_index_stuck ==
    IF proxies = <<>> THEN current_proxy_index
    ELSE IF current_proxy_index = -1 THEN 0
    ELSE current_proxy_index

\* _get_next_proxy: the index after the call, and the proxy returned
next_proxy_index ==
    IF proxies = <<>> THEN current_proxy_index
    ELSE IF current_proxy_index = -1 THEN 0
    ELSE (current_proxy_index + 1) % Len(proxies)
next_proxy ==
    IF proxies = <<>> THEN NoProxy ELSE proxies[next_proxy_index + 1]

\* "if not hasattr(self, 'credentials') or not self.credentials: return",
\* else the loop over the accounts begins
AccountsStart ==
    /\ pc = "idle"
    /\ IF credentials = <<>>
       THEN pc' = "accounts_done" /\ acct' = acct
       ELSE pc' = "acct_open_pc" /\ acct' = [AcctIdle EXCEPT !.i = 1]
    /\ UNCHANGED <<obs, agentVars, caller, genVars, searchVars, runVars, accepted,
                   proxies, current_proxy_index, credentials, guiVars>>

\* the next account, or the end of the loop
next_account ==
    IF acct.i < Len(credentials)
    THEN /\ acct' = [acct EXCEPT !.i = @ + 1, !.stage = "none"]
         /\ pc' = "acct_open_pc"
    ELSE /\ acct' = acct
         /\ pc' = "accounts_done"

\* proxy = self._get_next_proxy(); self.pc_driver = None;
\* self._initialize_pc_browser(proxy), which raises when Chrome cannot start
AcctOpenPc ==
    /\ pc = "acct_open_pc"
    /\ current_proxy_index' = next_proxy_index
    /\ \E opened \in BOOLEAN :
         LET locals == [acct EXCEPT !.stage = "pc", !.proxy = next_proxy,
                                    !.logged_in = FALSE, !.page = "none"]
         IN IF opened
            THEN /\ sessions' = Append(sessions, [Session("pc", next_proxy)
                                                    EXCEPT !.owner = acct.i])
                 /\ pc_driver' = Len(sessions) + 1
                 /\ acct' = locals
                 /\ pc' = "acct_login_pc"
            ELSE /\ sessions' = sessions
                 /\ pc_driver' = 0
                 /\ acct' = [locals EXCEPT !.fault = "open"]
                 /\ pc' = "fatal"
    /\ UNCHANGED <<obs, config, mobile_driver, pc_search_history, mobile_search_history,
                   csv_rows, caller, genVars, searchVars, runVars, accepted,
                   proxies, credentials, guiVars>>

\* a caller that runs the cycles whatever the login returned
runs_cycles_always(logged_in) == TRUE
\* "if self.login_to_account(...):" the cycles are run after a login that
\* returned True only
runs_cycles(logged_in) == logged_in

\* what the sign-in pages can do at a login: reject the e-mail address or
\* the password (a field or a button does not appear), accept both and show
\* the "Stay signed in?" prompt, accept both and show no prompt
LoginOutcomes ==
    IF acct.logins < MaxLogins THEN {"rejected", "accepted_prompt", "accepted"}
    ELSE {"rejected", "accepted"}

\* login_to_account: after the password, WebDriverWait(driver, 15) waits for
\* the button of the prompt and clicks it; a wait that times out raises, and
\* every exception is caught and answered with False
login_to_account(page) == page = "accepted_prompt"

\* if self.login_to_account(email, password, self.pc_driver): the histories
\* are emptied and run(pc_cycles=max_cycles, mobile_cycles=0) is called
AcctLoginPc ==
    /\ pc = "acct_login_pc"
    /\ \E page \in LoginOutcomes :
         LET logged_in == login_to_account(page) IN
         IF runs_cycles(logged_in)
         THEN /\ pc_search_history' = <<>>
              /\ mobile_search_history' = <<>>
              /\ accepted' = <<>>
              /\ acct' = [acct EXCEPT !.logged_in = logged_in, !.page = page,
                                      !.logins = IF logged_in THEN @ + 1 ELSE @]
              /\ run' = [RunIdle EXCEPT !.caller = "accounts",
                                        !.pc_cycles = config.max_cycles]
              /\ cyc' = CycleIdle
              /\ halted' = {}
              /\ pc' = "loop"
         ELSE /\ pc' = "acct_close_pc"
              /\ acct' = [acct EXCEPT !.page = page]
              /\ UNCHANGED <<pc_search_history, mobile_search_history, accepted,
                             run, cyc, halted>>
    /\ UNCHANGED <<obs, config, sessions, pc_driver, mobile_driver, csv_rows, caller,
                   genVars, searchVars, exc, proxies, current_proxy_index, credentials, guiVars>>

\* what quit can do: it may raise on a session that is no longer alive
QuitOutcomes(driver) == IF sessions[driver].alive THEN {"ok"} ELSE {"ok", "raises"}

\* if self.pc_driver: self.pc_driver.quit(), outside any try
AcctClosePc ==
    /\ pc = "acct_close_pc"
    /\ IF pc_driver = 0
       THEN /\ sessions' = sessions
            /\ pc' = "acct_open_mobile"
            /\ acct' = acct
       ELSE \E outcome \in QuitOutcomes(pc_driver) :
              /\ sessions' = [sessions EXCEPT ![pc_driver] = quit(@)]
              /\ pc' = IF outcome = "ok" THEN "acct_open_mobile" ELSE "fatal"
              /\ acct' = IF outcome = "ok" THEN acct ELSE [acct EXCEPT !.fault = "quit"]
    /\ UNCHANGED <<obs, config, pc_driver, mobile_driver, pc_search_history,
                   mobile_search_history, csv_rows, caller, genVars, searchVars,
                   runVars, accepted, proxies, current_proxy_index, credentials,
                   guiVars>>

\* self.mobile_driver = None; self._initialize_mobile_browser(proxy)
AcctOpenMobile ==
    /\ pc = "acct_open_mobile"
    /\ \E opened \in BOOLEAN :
         LET locals == [acct EXCEPT !.stage = "mobile", !.logged_in = FALSE,
                                    !.page = "none"]
         IN IF opened
            THEN /\ sessions' = Append(sessions, [Session("mobile", acct.proxy)
                                                    EXCEPT !.owner = acct.i])
                 /\ mobile_driver' = Len(sessions) + 1
                 /\ acct' = locals
                 /\ pc' = "acct_login_mobile"
            ELSE /\ sessions' = sessions
                 /\ mobile_driver' = 0
                 /\ acct' = [locals EXCEPT !.fault = "open"]
                 /\ pc' = "fatal"
    /\ UNCHANGED <<obs, config, pc_driver, pc_search_history, mobile_search_history,
                   csv_rows, caller, genVars, searchVars, runVars, accepted,
                   proxies, current_proxy_index, credentials, guiVars>>

\* a mobile part that goes on in the run of the desktop part, with the
\* counters that run has reached
AcctLoginMobileSameRun ==
    /\ pc = "acct_login_mobile"
    /\ \E page \in LoginOutcomes :
         LET logged_in == login_to_account(page) IN
         IF runs_cycles(logged_in)
         THEN /\ acct' = [acct EXCEPT !.logged_in = logged_in, !.page = page,
                                      !.logins = IF logged_in THEN @ + 1 ELSE @]
              /\ run' = [run EXCEPT !.caller = "accounts", !.mode = "pc",
                                    !.cycle = 0, !.pc_cycles = 0,
                                    !.mobile_cycles = config.max_cycles]
              /\ cyc' = CycleIdle
              /\ halted' = {}
              /\ pc' = "loop"
         ELSE /\ pc' = "acct_close_mobile"
              /\ acct' = [acct EXCEPT !.page = page]
              /\ UNCHANGED <<run, cyc, halted>>
    /\ UNCHANGED <<obs, agentVars, caller, genVars, searchVars, exc, accepted,
                   proxies, current_proxy_index, credentials, guiVars>>

\* if self.login_to_account(email, password, self.mobile_driver):
\* run(pc_cycles=0, mobile_cycles=max_cycles); the histories are kept
AcctLoginMobile ==
    /\ pc = "acct_login_mobile"
    /\ \E page \in LoginOutcomes :
         LET logged_in == login_to_account(page) IN
         IF runs_cycles(logged_in)
         THEN /\ acct' = [acct EXCEPT !.logged_in = logged_in, !.page = page,
                                      !.logins = IF logged_in THEN @ + 1 ELSE @]
              /\ run' = [RunIdle EXCEPT !.caller = "accounts",
                                        !.mobile_cycles = config.max_cycles]
              /\ cyc' = CycleIdle
              /\ halted' = {}
              /\ pc' = "loop"
         ELSE /\ pc' = "acct_close_mobile"
              /\ acct' = [acct EXCEPT !.page = page]
              /\ UNCHANGED <<run, cyc, halted>>
    /\ UNCHANGED <<obs, agentVars, caller, genVars, searchVars, exc, accepted,
                   proxies, current_proxy_index, credentials, guiVars>>

\* if self.mobile_driver: self.mobile_driver.quit(), then the next account
AcctCloseMobile ==
    /\ pc = "acct_close_mobile"
    /\ IF mobile_driver = 0
       THEN /\ sessions' = sessions
            /\ next_account
       ELSE \E outcome \in QuitOutcomes(mobile_driver) :
              /\ sessions' = [sessions EXCEPT ![mobile_driver] = quit(@)]
              /\ IF outcome = "ok" THEN next_account
                 ELSE pc' = "fatal" /\ acct' = [acct EXCEPT !.fault = "quit"]
    /\ UNCHANGED <<obs, config, pc_driver, mobile_driver, pc_search_history,
                   mobile_search_history, csv_rows, caller, genVars, searchVars,
                   runVars, accepted, proxies, current_proxy_index, credentials, guiVars>>

NextAccounts ==
    \/ AccountsStart
    \/ AcctOpenPc
    \/ AcctLoginPc
    \/ AcctClosePc
    \/ AcctOpenMobile
    \/ AcctLoginMobile
    \/ AcctCloseMobile
    \/ CycleBegin
    \/ LoopEnd
    \/ GenAttempt
    \/ GenFallback
    \/ CycleSearch
    \/ SearchAttempt
    \/ SearchGiveUp
    \/ CycleRecord
    \/ CycleDelay
    \/ CycleExcept
    \/ Recover
    \/ Summary

SpecAccounts == InitAccounts /\ [][NextAccounts]_vars

----------------------------------------------------------------------------
(* SpecRotator: _get_next_proxy called directly, over every pool of up to  *)
(* MaxProxies descriptors.                                                 *)

\* the pools: the sequences of 0..MaxProxies descriptors
Pools ==
    UNION { [1..n -> {ProxyList[i] : i \in 1..Len(ProxyList)}] : n \in 0..MaxProxies }

InitRotator ==
    /\ Constructed
    /\ proxies \in Pools
    /\ credentials = <<>>

\* proxy = self._get_next_proxy()
GetNextProxy ==
    /\ pc = "idle"
    /\ Len(obs.returned) < MaxProxyCalls
    /\ current_proxy_index' = next_proxy_index
    /\ obs' = [obs EXCEPT !.returned = Append(@, next_proxy)]
    /\ UNCHANGED <<agentVars, pc, caller, genVars, searchVars, runVars, proxies,
                   credentials, acct, guiVars, accepted>>

NextRotator ==
    \/ GetNextProxy

SpecRotator == InitRotator /\ [][NextRotator]_vars

----------------------------------------------------------------------------
(* The GUI (src/gui.py): Start and Stop, the worker thread run_agent that  *)
(* start_agent launches, and process_messages.  The model follows the      *)
(* worker thread of the first Start step by step; a later Start has its    *)
(* effect on the GUI and starts a thread.  SpecGui counts that thread and  *)
(* does not follow it; SpecGuiWorkers follows the construction of its      *)
(* agent, its entry into a cycle and its end when it was started while the *)
(* first worker was alive.                                                 *)

\* no agent has been constructed
NoAgent ==
    /\ config = [max_cycles |-> 0, min_delay |-> 0, max_delay |-> 0]
    /\ sessions = <<>>
    /\ pc_driver = 0
    /\ mobile_driver = 0
    /\ pc_search_history = <<>>
    /\ mobile_search_history = <<>>
    /\ csv_rows = <<>>
    /\ proxies = <<>>
    /\ credentials = <<>>

\* what the user has typed into the settings
GuiSettings ==
    { [GuiIdle EXCEPT !.api_key_var = k, !.cycles_var = c,
                      !.min_delay_var = d[1], !.max_delay_var = d[2]] :
        k \in {"", "key"}, c \in 1..MaxGuiCycles,
        d \in {<<1, MaxGuiDelay>>, <<MaxGuiDelay, 1>>} }

InitGui ==
    /\ Quiet
    /\ NoAgent
    /\ gui \in GuiSettings
    /\ caller = "direct"
    /\ gen = GenIdle
    /\ gen_result = NoResult
    /\ srch = SearchIdle
    /\ search_result = NoResult
    /\ run = RunIdle
    /\ exc = "none"
    /\ cyc = CycleIdle
    /\ halted = {}
    /\ accepted = <<>>

\* self.message_queue.put((msg_type, msg_data))
put(q, msg_type, msg_data) == Append(q, [type |-> msg_type, data |-> msg_data])

\* start_agent: refused without an API key; else is_running is set, the
\* buttons are switched and the worker thread is started (the model has the
\* user click Start at most MaxStarts times, and not while a test runs)
GuiStart ==
    /\ gui.start_button = "normal"
    /\ gui.api_key_var # ""
    /\ gui.starts < MaxStarts
    /\ gui.test \in {"none", "ended"}
    /\ gui' = [gui EXCEPT !.is_running = TRUE, !.start_button = "disabled",
                          !.stop_button = "normal", !.starts = @ + 1,
                          !.later = IF pc \in {"idle", "w_ended"} THEN @
                                   ELSE "w_start"]
    /\ pc' = IF pc = "idle" THEN "w_start" ELSE pc
    /\ UNCHANGED <<obs, agentVars, caller, genVars, searchVars, runVars, acctVars,
                   message_queue, accepted>>

\* stop_agent
GuiStop ==
    /\ gui.stop_button = "normal"
    /\ gui' = [gui EXCEPT !.is_running = FALSE, !.start_button = "normal",
                          !.stop_button = "disabled", !.status_var = "Stopping..."]
    /\ obs' = IF pc \in {"idle", "w_ended"} THEN obs
              ELSE [obs EXCEPT !.stop_seen = TRUE]
    /\ UNCHANGED <<agentVars, pc, caller, genVars, searchVars, runVars, acctVars,
                   message_queue, accepted>>

\* the branch of process_messages for one message
handle(g, msg) ==
    CASE msg.type = "status" -> [g EXCEPT !.status_var = msg.data]
      [] msg.type = "error" -> [g EXCEPT !.status_var = "Error occurred"]
      [] msg.type = "start" -> [g EXCEPT !.progress_var = 0]
      [] msg.type = "progress" -> [g EXCEPT !.progress_var = msg.data]
      [] msg.type = "delay" -> [g EXCEPT !.status_var = msg.data]
      [] msg.type = "complete" ->
           [g EXCEPT !.status_var = "Complete", !.progress_var = 100,
                     !.start_button = "normal", !.stop_button = "disabled",
                     !.is_running = FALSE]
      [] OTHER -> g

RECURSIVE drain(_, _)
\* while True: msg = self.message_queue.get_nowait() ... until queue.Empty
drain(g, q) == IF q = <<>> THEN g ELSE drain(handle(g, Head(q)), Tail(q))

\* process_messages, every 100 ms
ProcessMessages ==
    /\ message_queue # <<>>
    /\ gui' = drain(gui, message_queue)
    /\ message_queue' = <<>>
    /\ UNCHANGED <<obs, agentVars, pc, caller, genVars, searchVars, runVars, acctVars,
                   accepted>>

\* save_env_file, called by run_agent and by run_test on their own thread:
\* self.api_key_var.get(), self.cycles_var.get(), self.min_delay_var.get(),
\* self.max_delay_var.get()
save_env_file_reads == {"api_key_var", "cycles_var", "min_delay_var", "max_delay_var"}

\* test_setup: the thread run_test is started; the button is always enabled
\* (the model follows one test, made before the first Start)
GuiTest ==
    /\ gui.test = "none"
    /\ gui.starts = 0
    /\ gui' = [gui EXCEPT !.test = "started"]
    /\ UNCHANGED <<obs, agentVars, pc, caller, genVars, searchVars, runVars, acctVars,
                   message_queue, accepted>>

\* run_test, its first statements: self.log_message("[TEST] Testing
\* setup...") and self.status_var.set("Testing..."), then save_env_file
TestBegin ==
    /\ gui.test = "started"
    /\ gui' = [gui EXCEPT !.test = "begun", !.status_var = "Testing..."]
    /\ obs' = [obs EXCEPT !.direct = @ \cup {"log", "status_var"}
                                        \cup save_env_file_reads]
    /\ UNCHANGED <<agentVars, pc, caller, genVars, searchVars, runVars, acctVars,
                   message_queue, accepted>>

\* run_test, the rest: validate_environment, then an agent of its own is
\* constructed, asked for one query and cleaned up; the outcome is put on
\* the queue
TestEnd ==
    /\ gui.test = "begun"
    /\ gui' = [gui EXCEPT !.test = "ended"]
    /\ \E outcome \in {"invalid", "failed", "ok"} :
         message_queue' =
            CASE outcome = "invalid" ->
                   put(message_queue, "error", "Environment validation failed")
              [] outcome = "failed" -> put(message_queue, "error", "Test failed")
              [] OTHER -> put(message_queue, "success", "Test successful")
    /\ UNCHANGED <<obs, agentVars, pc, caller, genVars, searchVars, runVars, acctVars,
                   accepted>>

\* load_config: "if not self.config['gemini_api_key'] or ... ==
\* 'your_gemini_api_key_here': raise ValueError"
load_config_accepts(key) == key

\* the module uses json.load and has no "import json"
json_imported == FALSE

\* load_proxies: the content of the file when open and json.load succeed;
\* any exception is caught and logged, and [] is returned
load_proxies(readable, content) ==
    IF readable /\ json_imported THEN content ELSE <<>>

\* run_agent up to the loops: the status message, save_env_file, the
\* construction of the agent, the cycle counts, the start message; whatever
\* raises here ends the worker with the message "Agent failed"
WorkerInit ==
    /\ pc = "w_start"
    /\ \E key \in BOOLEAN, readable \in BOOLEAN, browsers \in BOOLEAN :
         LET q == put(message_queue, "status", "Initializing agent...")
             pc_cycles == gui.cycles_var \div 2
             mobile_cycles == gui.cycles_var - pc_cycles
         IN IF ~load_config_accepts(key)
            THEN /\ message_queue' = put(q, "error", "Agent failed")
                 /\ pc' = "w_ended"
                 /\ obs' = [obs EXCEPT !.key_missing = TRUE,
                                       !.direct = @ \cup save_env_file_reads]
                 /\ UNCHANGED <<agentVars, run, accepted, proxies>>
            ELSE /\ obs' = [obs EXCEPT !.proxies_unread = ~readable,
                                       !.direct = @ \cup save_env_file_reads]
                 /\ proxies' = load_proxies(readable, ProxyList)
                 /\ IF browsers
                    THEN /\ config' = [max_cycles |-> gui.cycles_var,
                                       min_delay |-> gui.min_delay_var,
                                       max_delay |-> gui.max_delay_var]
                         /\ sessions' = <<Session("pc", NoProxy),
                                          Session("mobile", NoProxy)>>
                         /\ pc_driver' = 1
                         /\ mobile_driver' = 2
                         /\ pc_search_history' = <<>>
                         /\ mobile_search_history' = <<>>
                         /\ csv_rows' = <<>>
                         /\ accepted' = <<>>
                         /\ run' = [RunIdle EXCEPT !.caller = "gui",
                                                   !.pc_cycles = pc_cycles,
                                                   !.mobile_cycles = mobile_cycles]
                         /\ message_queue' = put(q, "start", pc_cycles + mobile_cycles)
                         /\ pc' = "w_loop"
                    ELSE /\ message_queue' = put(q, "error", "Agent failed")
                         /\ pc' = "w_ended"
                         /\ UNCHANGED <<agentVars, run, accepted>>
    /\ cyc' = CycleIdle
    /\ UNCHANGED <<caller, genVars, searchVars, exc, halted, current_proxy_index,
                   credentials, acct, gui>>

\* for cycle in range(1, cycles + 1): if not self.is_running: break;
\* else the cycle begins with agent.generate_search_query()
WorkerCycleBegin ==
    /\ pc = "w_loop"
    /\ run.cycle < CyclesOf(run.mode)
    /\ gui.is_running
    /\ run' = [run EXCEPT !.cycle = @ + 1, !.begun[run.mode] = @ + 1]
    /\ cyc' = CycleIdle
    /\ BeginGenerate("gui")
    /\ obs' = IF obs.stop_seen THEN [obs EXCEPT !.after_stop = @ + 1] ELSE obs
    /\ UNCHANGED <<agentVars, searchVars, exc, halted, acctVars, guiVars, accepted>>

\* the range is exhausted, or the loop breaks: the mobile loop follows the
\* pc loop, agent.cleanup() follows the mobile loop
WorkerLoopEnd ==
    /\ pc = "w_loop"
    /\ run.cycle >= CyclesOf(run.mode) \/ ~gui.is_running
    /\ IF run.mode = "pc"
       THEN /\ run' = [run EXCEPT !.mode = "mobile", !.cycle = 0]
            /\ pc' = pc
       ELSE /\ run' = run
            /\ pc' = "w_cleanup"
    /\ UNCHANGED <<obs, agentVars, caller, genVars, searchVars, exc, cyc, halted, acctVars,
                   guiVars, accepted>>

\* the query message, then agent.execute_search(query, mode)
WorkerSearch ==
    /\ pc = "generate_done"
    /\ caller = "gui"
    /\ gen' = GenIdle
    /\ message_queue' = put(message_queue, "query", gen_result.query)
    /\ BeginSearch("gui", run.mode)
    /\ UNCHANGED <<obs, agentVars, gen_result, runVars, acctVars, gui, accepted>>

\* the position of the cycle in the whole run, out of pc_cycles + mobile_cycles
progress == IF run.mode = "pc" THEN run.cycle ELSE run.cycle + run.pc_cycles

\* the success or error message, the progress message, then the draw of the
\* delay if another cycle follows and is_running: random.randint raises for
\* an empty range, and the handler of the cycle reports it
WorkerReport ==
    /\ pc = "search_done"
    /\ caller = "gui"
    /\ srch' = SearchIdle
    /\ search_result' = NoResult
    /\ gen_result' = NoResult
    /\ LET q1 == IF search_result.success
                 THEN put(message_queue, "success", "search completed")
                 ELSE put(message_queue, "error", "search failed")
           q2 == put(q1, "progress", progress)
       IN IF run.cycle < CyclesOf(run.mode) /\ gui.is_running
          THEN IF gui.min_delay_var > gui.max_delay_var
               THEN /\ message_queue' = put(q2, "error", "cycle failed")
                    /\ pc' = "w_loop"
                    /\ cyc' = cyc
               ELSE /\ \E delay \in gui.min_delay_var..gui.max_delay_var :
                         cyc' = [cyc EXCEPT !.delay = delay]
                    /\ message_queue' = q2
                    /\ pc' = "w_delay"
          ELSE /\ message_queue' = q2
               /\ pc' = "w_loop"
               /\ cyc' = cyc
    /\ UNCHANGED <<obs, agentVars, caller, gen, run, exc, halted, acctVars, gui, accepted>>

\* for remaining in range(delay, 0, -1): if not self.is_running: break;
\* the delay message; wait(1)
WorkerDelayTick ==
    /\ pc = "w_delay"
    /\ IF cyc.delay > 0 /\ gui.is_running
       THEN /\ message_queue' = put(message_queue, "delay", "Next search in")
            /\ cyc' = [cyc EXCEPT !.delay = @ - 1]
            /\ pc' = pc
            /\ obs' = IF obs.stop_seen THEN [obs EXCEPT !.after_stop = @ + 1] ELSE obs
       ELSE /\ message_queue' = message_queue
            /\ cyc' = cyc
            /\ pc' = "w_loop"
            /\ obs' = obs
    /\ UNCHANGED <<agentVars, caller, genVars, searchVars, run, exc, halted, acctVars,
                   gui, accepted>>

\* agent.cleanup(), which quits both browsers and catches what quit raises,
\* then the complete message
WorkerFinish ==
    /\ pc = "w_cleanup"
    /\ sessions' = [i \in 1..Len(sessions) |->
                      IF i \in {pc_driver, mobile_driver} THEN quit(sessions[i])
                      ELSE sessions[i]]
    /\ message_queue' = put(message_queue, "complete", "Agent finished")
    /\ pc' = "w_ended"
    /\ obs' = [obs EXCEPT !.completes = @ + 1]
    /\ UNCHANGED <<config, pc_driver, mobile_driver, pc_search_history,
                   mobile_search_history, csv_rows, caller, genVars, searchVars,
                   runVars, acctVars, gui, accepted>>

\* run_agent on the thread of a later Start, up to the first cycle: the
\* status message, the construction of an agent of its own, the start
\* message, then "if not self.is_running: break" at the head of its loops,
\* which lets it into a cycle or sends it to the complete message
LaterInit ==
    /\ gui.later = "w_start"
    /\ \E constructed \in BOOLEAN :
         LET q == put(message_queue, "status", "Initializing agent...")
             pc_cycles == gui.cycles_var \div 2
             mobile_cycles == gui.cycles_var - pc_cycles
             started == put(q, "start", pc_cycles + mobile_cycles)
         IN IF ~constructed
            THEN /\ message_queue' = put(q, "error", "Agent failed")
                 /\ gui' = [gui EXCEPT !.later = "w_ended"]
            ELSE IF gui.is_running
                 THEN /\ message_queue' = started
                      /\ gui' = [gui EXCEPT !.later = "w_cycle"]
                 ELSE /\ message_queue' = put(started, "complete", "Agent finished")
                      /\ gui' = [gui EXCEPT !.later = "w_ended"]
    /\ UNCHANGED <<obs, agentVars, pc, caller, genVars, searchVars, runVars, acctVars,
                   accepted>>

\* the same thread leaves its loops: agent.cleanup() and the complete
\* message (the messages of its cycles are not followed)
LaterFinish ==
    /\ gui.later = "w_cycle"
    /\ gui' = [gui EXCEPT !.later = "w_ended"]
    /\ message_queue' = put(message_queue, "complete", "Agent finished")
    /\ UNCHANGED <<obs, agentVars, pc, caller, genVars, searchVars, runVars, acctVars,
                   accepted>>

NextGui ==
    \/ GuiStart
    \/ GuiTest
    \/ TestBegin
    \/ TestEnd
    \/ GuiStop
    \/ ProcessMessages
    \/ WorkerInit
    \/ WorkerCycleBegin
    \/ WorkerLoopEnd
    \/ GenAttempt
    \/ GenFallback
    \/ WorkerSearch
    \/ SearchAttempt
    \/ SearchGiveUp
    \/ WorkerReport
    \/ WorkerDelayTick
    \/ WorkerFinish

SpecGui == InitGui /\ [][NextGui]_vars

\* two worker threads: the user has typed a key, two cycles (one per
\* profile, so that "cycle < pc_cycles" and "cycle < mobile_cycles" are
\* false and no countdown is taken) and a delay range that is not empty,
\* and runs no test
InitGuiWorkers ==
    /\ InitGui
    /\ gui.api_key_var # ""
    /\ gui.cycles_var = 2
    /\ gui.min_delay_var <= gui.max_delay_var

NextGuiWorkers ==
    \/ GuiStart
    \/ GuiStop
    \/ ProcessMessages
    \/ WorkerInit
    \/ WorkerCycleBegin
    \/ WorkerLoopEnd
    \/ GenAttempt
    \/ GenFallback
    \/ WorkerSearch
    \/ SearchAttempt
    \/ SearchGiveUp
    \/ WorkerReport
    \/ WorkerFinish
    \/ LaterInit
    \/ LaterFinish

SpecGuiWorkers == InitGuiWorkers /\ [][NextGuiWorkers]_vars

----------------------------------------------------------------------------
(* SpecMain: the process "python ai_search_agent.py": the imports, then    *)
(* main().                                                                 *)

InitMain ==
    /\ pc = "import"
    /\ obs = ObsIdle
    /\ message_queue = <<>>
    /\ current_proxy_index = -1
    /\ acct = AcctIdle
    /\ gui = GuiIdle
    /\ NoAgent
    /\ caller = "direct"
    /\ gen = GenIdle
    /\ gen_result = NoResult
    /\ srch = SearchIdle
    /\ search_result = NoResult
    /\ run = RunIdle
    /\ exc = "none"
    /\ cyc = CycleIdle
    /\ halted = {}
    /\ accepted = <<>>

\* the third-party imports at the top of the module:
\* "except ImportError: ... sys.exit(1)"
MainImport ==
    /\ pc = "import"
    /\ \E packages \in BOOLEAN :
         IF packages
         THEN pc' = "main" /\ obs' = obs
         ELSE pc' = "exited" /\ obs' = [obs EXCEPT !.fatal = "packages", !.exit_code = 1]
    /\ UNCHANGED <<agentVars, caller, genVars, searchVars, runVars, acctVars, guiVars,
                   accepted>>

\* what the construction can meet besides a missing key: nothing, a number
\* of the environment that int() rejects (in load_config), a LOG_LEVEL that
\* logging does not have (in setup_logging), a failure of
\* _initialize_gemini, of _initialize_pc_browser or of
\* _initialize_mobile_browser (each logs and raises again)
InitOutcomes == {"ok", "config", "logging", "gemini", "pc_browser", "mobile_browser"}

\* "with AISearchAgent() as agent": __init__ = load_config, setup_logging,
\* load_proxies, _initialize_gemini, the two browsers, _setup_csv_logging.
\* An exception of __init__ leaves the with statement before __enter__, so
\* __exit__ is not called and a browser already opened stays open.
MainConstruct ==
    /\ pc = "main"
    /\ \E key \in BOOLEAN, env \in Configs, readable \in BOOLEAN, outcome \in InitOutcomes :
         IF outcome = "config"
         THEN /\ pc' = "main_except"
              /\ obs' = [obs EXCEPT !.fatal = "config"]
              /\ UNCHANGED <<agentVars, proxies>>
         ELSE IF ~load_config_accepts(key)
         THEN /\ pc' = "main_except"
              /\ obs' = [obs EXCEPT !.key_missing = TRUE, !.fatal = "key"]
              /\ UNCHANGED <<agentVars, proxies>>
         ELSE IF outcome = "logging"
         THEN /\ pc' = "main_except"
              /\ config' = env
              /\ obs' = [obs EXCEPT !.fatal = "logging"]
              /\ UNCHANGED <<sessions, pc_driver, mobile_driver, pc_search_history,
                             mobile_search_history, csv_rows, proxies>>
         ELSE /\ config' = env
              /\ proxies' = load_proxies(readable, ProxyList)
              /\ sessions' = CASE outcome = "ok" -> <<Session("pc", NoProxy),
                                                      Session("mobile", NoProxy)>>
                               [] outcome = "mobile_browser" -> <<Session("pc", NoProxy)>>
                               [] OTHER -> <<>>
              /\ pc_driver' = IF outcome \in {"ok", "mobile_browser"} THEN 1 ELSE 0
              /\ mobile_driver' = IF outcome = "ok" THEN 2 ELSE 0
              /\ obs' = [obs EXCEPT !.proxies_unread = ~readable,
                                    !.fatal = IF outcome = "ok" THEN "none" ELSE outcome]
              /\ pc' = IF outcome = "ok" THEN "main_load" ELSE "main_except"
              /\ UNCHANGED <<pc_search_history, mobile_search_history, csv_rows>>
    /\ UNCHANGED <<caller, genVars, searchVars, runVars, current_proxy_index,
                   credentials, acct, guiVars, accepted>>

\* load_credentials: the content of the file when open and json.load
\* succeed; any exception is caught and logged and self.credentials = None
load_credentials(readable, content) ==
    IF readable /\ json_imported THEN content ELSE <<>>

\* agent.load_credentials()
MainLoadCredentials ==
    /\ pc = "main_load"
    /\ \E readable \in BOOLEAN :
         /\ credentials' = load_credentials(readable, AccountList)
         /\ obs' = [obs EXCEPT !.credentials_unread = ~readable]
    /\ pc' = "main_accounts"
    /\ UNCHANGED <<agentVars, caller, genVars, searchVars, runVars, proxies,
                   current_proxy_index, acct, guiVars, accepted>>

\* agent.run_with_multiple_accounts() on the credentials that
\* load_credentials has left: "if ... not self.credentials: return"
MainAccounts ==
    /\ pc = "main_accounts"
    /\ credentials = <<>>
    /\ pc' = "main_exit_with"
    /\ UNCHANGED <<obs, agentVars, caller, genVars, searchVars, runVars, acctVars,
                   guiVars, accepted>>

\* cleanup: both sessions are quit inside one try; an exception of quit is
\* logged as a warning
cleanup(ss, pcd, mobd) ==
    [i \in 1..Len(ss) |-> IF i \in {pcd, mobd} THEN quit(ss[i]) ELSE ss[i]]

\* the end of the with block: __exit__ calls cleanup
MainExitWith ==
    /\ pc = "main_exit_with"
    /\ sessions' = cleanup(sessions, pc_driver, mobile_driver)
    /\ pc' = "main_finally"
    /\ UNCHANGED <<obs, config, pc_driver, mobile_driver, pc_search_history,
                   mobile_search_history, csv_rows, caller, genVars, searchVars,
                   runVars, acctVars, guiVars, accepted>>

\* KeyboardInterrupt before the construction, or inside the with block,
\* where __exit__ calls cleanup; "except KeyboardInterrupt" prints the
\* warning
MainInterrupt ==
    /\ pc \in {"main", "main_load", "main_accounts"}
    /\ sessions' = cleanup(sessions, pc_driver, mobile_driver)
    /\ obs' = [obs EXCEPT !.interrupted = TRUE]
    /\ pc' = "main_finally"
    /\ UNCHANGED <<config, pc_driver, mobile_driver, pc_search_history,
                   mobile_search_history, csv_rows, caller, genVars, searchVars,
                   runVars, acctVars, guiVars, accepted>>

\* "except Exception as e": the line "[FATAL] Fatal error" is printed
MainExcept ==
    /\ pc = "main_except"
    /\ pc' = "main_finally"
    /\ UNCHANGED <<obs, agentVars, caller, genVars, searchVars, runVars, acctVars,
                   guiVars, accepted>>

\* the exit code of a process whose main() has returned: no branch of main
\* calls sys.exit or raises again
exit_code_of_return == 0

\* "finally": the line "[EXIT] ..." is printed, main returns and the
\* process ends
MainFinally ==
    /\ pc = "main_finally"
    /\ pc' = "exited"
    /\ obs' = [obs EXCEPT !.exit_code = exit_code_of_return]
    /\ UNCHANGED <<agentVars, caller, genVars, searchVars, runVars, acctVars, guiVars,
                   accepted>>

NextMain ==
    \/ MainImport
    \/ MainConstruct
    \/ MainLoadCredentials
    \/ MainAccounts
    \/ MainExitWith
    \/ MainInterrupt
    \/ MainExcept
    \/ MainFinally

SpecMain == InitMain /\ [][NextMain]_vars

----------------------------------------------------------------------------
(* Properties of the methods (SpecApi).                                    *)

\* the terms the spec denies, written out
Denylist ==
    { <<"e","x","p","l","i","c","i","t">>, <<"i","l","l","e","g","a","l">>,
      <<"h","a","c","k">>, <<"c","r","a","c","k">> }

AllFailed(outcomes) == \A i \in 1..Len(outcomes) : outcomes[i] # "ok"
AllErrors(outcomes) == \A i \in 1..Len(outcomes) : outcomes[i] = "error"
IsFallback(query) == \E pick \in 1..Len(categories) : query = fallback_query(pick)

\* C5: when every attempt of execute_search fails (timeout or any other
\* error), the call makes exactly 3 attempts, never more, and returns
\* success = false with the tag 'error: all retries failed'.
C5_AllRetriesFailed ==
    /\ Len(srch.outcomes) <= 3
    /\ (pc = "search_done" /\ AllFailed(srch.outcomes))
          => /\ Len(srch.outcomes) = 3
             /\ search_result = [status |-> "returned", success |-> FALSE,
                                 url |-> "error: all retries failed"]

C5_Witness ==
    /\ pc = "search_done"
    /\ srch.outcomes = <<"timeout", "error", "timeout">>
    /\ search_result.status = "returned"
    /\ ~search_result.success

\* C7: generate_search_query never raises and always returns a query: for
\* every combination of service errors and invalid answers it calls the
\* service at most 3 times and then returns a validated query (the cleaned
\* answer of its last call) or the fallback.
C7_GenerateAlwaysReturns ==
    /\ gen.calls <= 3
    /\ gen_result.status # "raised"
    /\ pc = "generate_done"
          => /\ gen_result.status = "returned"
             /\ gen_result.query # <<>>
             /\ \/ /\ gen.outcomes[Len(gen.outcomes)] = "valid"
                   /\ gen_result.query_type # "fallback"
                \/ /\ Len(gen.outcomes) = 3
                   /\ \A i \in 1..3 : gen.outcomes[i] \in {"error", "invalid"}
                   /\ gen_result.query_type = "fallback"
                   /\ IsFallback(gen_result.query)

C7_Witness ==
    /\ pc = "generate_done"
    /\ gen.outcomes = <<"error", "invalid", "error">>
    /\ gen_result.status = "returned"
    /\ gen_result.query_type = "fallback"

\* C8: when the generation service errors on every call,
\* generate_search_query calls it exactly 3 times and returns a query
\* 'what is <category>' tagged category 'general' and query type 'fallback',
\* having slept the backoff those 3 attempts incur: 1s after the first and
\* 2s after the second.
C8_AlwaysErrorFallback ==
    (pc = "generate_done" /\ AllErrors(gen.outcomes))
      => /\ gen.calls = 3
         /\ gen_result.status = "returned"
         /\ \E pick \in 1..14 :
              gen_result.query = <<"w","h","a","t"," ","i","s"," ">> \o categories[pick]
         /\ gen_result.category = <<"g","e","n","e","r","a","l">>
         /\ gen_result.query_type = "fallback"
         /\ gen.sleeps = <<1, 2>>

C8_Witness ==
    /\ pc = "generate_done"
    /\ gen.outcomes = <<"error", "error", "error">>
    /\ gen_result.status = "returned"
    /\ gen_result.query = <<"w","h","a","t"," ","i","s"," ","f","o","o","d">>

\* C9: every query text generate_search_query returns (generated or
\* fallback) is 3 to 100 characters long and holds no denylisted term as a
\* case-insensitive substring.
C9_ReturnedQueryValid ==
    (pc = "generate_done" /\ gen_result.status = "returned")
      => /\ Len(gen_result.query) >= 3
         /\ Len(gen_result.query) <= 100
         /\ \A term \in Denylist : ~Contains(Lower(gen_result.query), term)

C9_Witness ==
    /\ pc = "generate_done"
    /\ gen_result.status = "returned"
    /\ gen_result.query_type # "fallback"
    /\ Len(gen_result.query) = 100
    /\ gen.outcomes = <<"invalid", "invalid", "valid">>

\* C10: each history holds at most 20 entries and is always the most recent
\* (up to 20) accepted queries in generation order: the 21st entry evicts
\* the oldest.
C10_HistoryBounded ==
    LET n == Len(accepted)
        recent == IF n > 20 THEN SubSeq(accepted, n - 19, n) ELSE accepted
    IN /\ Len(pc_search_history) <= 20
       /\ Len(mobile_search_history) <= 20
       /\ pc_search_history = recent
       /\ mobile_search_history = recent

C10_Witness ==
    /\ Len(accepted) = 22
    /\ Len(pc_search_history) = 20
    /\ pc_search_history[1] = accepted[3]
    /\ pc_search_history[20] = accepted[22]
    /\ accepted[1] # accepted[3]


----------------------------------------------------------------------------
(* Properties of the Cycle Executor (Spec).                                *)

AllSuccess(rows) == \A i \in 1..Len(rows) : rows[i].status = "success"

\* C1: run for one device profile with C cycles, every search of which
\* succeeds (and every write of the audit file too), appends exactly C audit
\* records, all with status 'success', and ends with the success counter at
\* C and the failure counter at 0.
C1_AllSucceedCounts ==
    ( /\ pc = "run_done"
      /\ (run.pc_cycles = 0 \/ run.mobile_cycles = 0)
      /\ ~run.search_fault
      /\ ~run.audit_fault )
      => LET C == run.pc_cycles + run.mobile_cycles
         IN /\ Len(csv_rows) = C
            /\ AllSuccess(csv_rows)
            /\ run.successful_searches = C
            /\ run.failed_searches = 0

\* C2: a cycle during whose search the browser session was unusable is
\* followed by exactly one recovery attempt before the next cycle begins.
C2_OneRecoveryPerSessionError ==
    (pc \in {"loop", "summary"} /\ cyc.session_error) => cyc.recoveries = 1

\* C3: when the recovery after the session error of cycle k fails, no cycle
\* after k is started for that device profile, and the failure counter has
\* been incremented exactly once for cycle k.
C3_FailedRecoveryHalts ==
    \A h \in halted :
       /\ h.begun = h.cycle
       /\ run.begun[h.mode] = h.cycle
       /\ h.fail_incr = 1

C3_Witness ==
    /\ pc = "run_done"
    /\ run.pc_cycles = 2
    /\ \E h \in halted : h.mode = "pc" /\ h.cycle = 1
    /\ run.begun["pc"] = 1


----------------------------------------------------------------------------
(* Properties of the account loop (SpecAccounts).                          *)

\* C4: the session a successful recovery opens is for the same device
\* profile and is routed through the same proxy as the session it replaces.
C4_RecoveryKeepsProxy ==
    \A i \in 1..Len(sessions) :
       sessions[i].replaces # 0
         => /\ sessions[i].mode = sessions[sessions[i].replaces].mode
            /\ sessions[i].proxy = sessions[sessions[i].replaces].proxy


----------------------------------------------------------------------------
(* Properties of the GUI worker (SpecGui).                                 *)

\* the cycles begun so far, over both device profiles
CyclesBegun == run.begun["pc"] + run.begun["mobile"]

\* C6: every attempted cycle yields exactly one audit record, however many
\* search retries it needed, and the record is written before the query
\* generation of the next cycle begins, for the cycles of run and for the
\* cycles of the GUI worker (the writes of the audit file not failing).
C6_OneRecordPerCycle ==
    ~run.audit_fault
      => /\ pc \in {"loop", "summary", "run_done", "w_loop", "w_cleanup", "w_ended"}
              => Len(csv_rows) = CyclesBegun
         /\ pc = "generate" /\ caller # "direct"
              => Len(csv_rows) = CyclesBegun - 1


----------------------------------------------------------------------------
(* Properties of the proxy rotation (SpecRotator).                         *)

\* C11: over a pool of N >= 1 descriptors the k-th call of _get_next_proxy
\* returns the descriptor at position ((k - 1) mod N) + 1 of the pool, so
\* call N + 1 returns the first again; over an empty pool every call returns
\* none and leaves the rotation state as it was.
C11_RoundRobin ==
    /\ \A k \in 1..Len(obs.returned) :
          obs.returned[k] = IF proxies = <<>> THEN NoProxy
                            ELSE proxies[((k - 1) % Len(proxies)) + 1]
    /\ proxies = <<>> => current_proxy_index = -1

C11_Witness ==
    /\ Len(proxies) = 2
    /\ proxies[1] # proxies[2]
    /\ Len(obs.returned) = 3
    /\ obs.returned = <<proxies[1], proxies[2], proxies[1]>>


----------------------------------------------------------------------------
(* Further properties of the Cycle Executor (Spec).                        *)

\* C12: in a batch of C cycles for one device profile, a cycle k < C that is
\* followed by another cycle is followed by one countdown of a delay within
\* [min_delay, max_delay], and the final cycle C by none (the cycle itself
\* having been recorded without a fault of the audit file).
C12_DelayBetweenCycles ==
    (pc = "loop" /\ run.cycle >= 1 /\ ~cyc.audit_fault)
      => IF run.cycle < CyclesOf(run.mode)
         THEN cyc.delay \in config.min_delay..config.max_delay
         ELSE cyc.delay = 0


\* C14: when the search of cycle k fails after its retries and the record
\* is written, the cycle has written one record with status 'failed', has
\* incremented the failure counter by one and has attempted no recovery, and
\* the loop is at its head again, where cycle k+1 begins when k < C.
C14_FailedSearchRecorded ==
    ( /\ pc = "loop"
      /\ run.cycle >= 1
      /\ cyc.rows >= 1
      /\ csv_rows[Len(csv_rows)].status = "failed" )
      => /\ cyc.rows = 1
         /\ cyc.fail_incr = 1
         /\ cyc.succ_incr = 0
         /\ cyc.recoveries = 0

----------------------------------------------------------------------------
(* Further properties of the account loop (SpecAccounts).                  *)

\* C13: closing a session is best-effort: a quit that raises does not abort
\* run_with_multiple_accounts (a failing close of the desktop session does
\* not keep the mobile session from being opened, used and closed).
C13_CloseBestEffort ==
    pc = "fatal" => acct.fault # "quit"


\* C15: the desktop and the mobile cycles never overlap: while the desktop
\* loop of a run is running no mobile cycle of the run has begun, and when a
\* mobile session of an account exists, quit has been called on every
\* desktop session opened for that account.
C15_ProfilesSequential ==
    /\ run.mode = "pc" => run.begun["mobile"] = 0
    /\ \A i, j \in 1..Len(sessions) :
          ( /\ sessions[i].owner # 0
            /\ sessions[i].owner = sessions[j].owner
            /\ sessions[i].mode = "pc"
            /\ sessions[j].mode = "mobile" )
            => sessions[i].quits >= 1

C15_Witness ==
    /\ pc = "search"
    /\ run.mode = "mobile"
    /\ acct.i = 1
    /\ acct.stage = "mobile"
    /\ sessions[mobile_driver].owner = 1
    /\ sessions[mobile_driver].alive
    /\ \E i \in 1..Len(sessions) :
          /\ sessions[i].owner = 1
          /\ sessions[i].mode = "pc"
          /\ sessions[i].replaces # 0
          /\ sessions[i].quits = 1


\* the positions inside run
CyclePositions ==
    {"loop", "generate", "generate_done", "search", "search_done", "delay",
     "except", "recover", "summary"}

\* C16: a login that fails does not abort run_with_multiple_accounts: no
\* cycle is run for that account and device profile (run is entered only
\* after a login that returned True), the method is left early only by a
\* browser that cannot be opened or closed, and the next device profile and
\* the next account follow.
C16_AuthFailureSkips ==
    /\ (run.caller = "accounts" /\ pc \in CyclePositions) => acct.logged_in
    /\ pc = "fatal" => acct.fault \in {"open", "quit"}
    /\ (pc \in {"acct_close_pc", "acct_close_mobile"} /\ ~acct.logged_in)
          => acct.fault = "none"

C16_Witness ==
    /\ acct.i = 2
    /\ acct.stage = "pc"
    /\ acct.logins = 1
    /\ acct.logged_in
    /\ pc = "search"
    /\ csv_rows = <<>>


\* the records with status 'success' in the audit file
SuccessRows == Cardinality({i \in 1..Len(csv_rows) : csv_rows[i].status = "success"})

\* C17: when all accounts have been processed, one final summary has been
\* printed, and it reports the counters aggregated over all accounts and both
\* device profiles.
C17_OneAggregatedSummary ==
    (pc = "accounts_done" /\ credentials # <<>>)
      => /\ obs.summaries = 1
         /\ run.successful_searches = SuccessRows


----------------------------------------------------------------------------
(* Further properties of the GUI worker (SpecGui).                         *)

\* C18: once Stop has set is_running to false, the worker started by the
\* preceding Start begins no further cycle and takes no further tick of its
\* countdown, even if Start is clicked again before the worker reaches its
\* next checkpoint.
C18_StopIsEffective ==
    obs.stop_seen => obs.after_stop = 0


----------------------------------------------------------------------------
(* The default split of run (Spec).                                        *)

\* C19: when run is called without an explicit split for a budget of T
\* cycles, the desktop count is floor(16 * T / 27), the mobile count is T
\* minus the desktop count, both are integers that the loops can use as
\* bounds, and run attempts exactly T cycles when no recovery fails.
C19_DefaultSplit ==
    (run.defaulted /\ pc \in {"run_done", "run_raised"})
      => /\ run.pc_cycles = (16 * config.max_cycles) \div 27
         /\ run.mobile_cycles = config.max_cycles - run.pc_cycles
         /\ ~run.float
         /\ pc = "run_done"
         /\ halted = {} => CyclesBegun = config.max_cycles


----------------------------------------------------------------------------
(* Errors at start-up (SpecGui).                                           *)

\* C20: an error at start-up is fatal: when the GEMINI_API_KEY is missing or
\* the proxy file cannot be read, no search cycle is begun.
C20_StartupErrorFatal ==
    (obs.key_missing \/ obs.proxies_unread) => CyclesBegun = 0


----------------------------------------------------------------------------
(* The exit code of the process (SpecMain).                                *)

\* C21: the process ends with exit code 0 after a graceful completion or an
\* interruption by the user, and with a non-zero exit code after a start-up
\* failure that cannot be recovered, such as a missing GEMINI_API_KEY.
C21_ExitCode ==
    pc = "exited" => (obs.exit_code = 0 <=> obs.fatal = "none")


----------------------------------------------------------------------------
(* Termination of run (SpecFair).                                          *)

\* the loops of run never begin more cycles than asked for, a cycle index
\* is begun once, and a cycle enters the recovery at most once
RunBounded ==
    /\ run.begun["pc"] <= run.pc_cycles
    /\ run.begun["mobile"] <= run.mobile_cycles
    /\ run.cycle = run.begun[run.mode]
    /\ cyc.recoveries <= 1

\* C22: run(pc_cycles, mobile_cycles) always ends: whatever the generation,
\* the searches, the audit log and the recoveries do, it begins at most
\* pc_cycles desktop cycles and at most mobile_cycles mobile cycles, takes
\* no cycle index twice, does not loop on the recovery, and reaches its end.
C22_RunTerminates ==
    /\ [](~run.defaulted => RunBounded)
    /\ (pc # "idle" /\ ~run.defaulted) ~> (pc = "run_done")

C22_Witness ==
    /\ pc = "run_done"
    /\ ~run.defaulted
    /\ CyclesBegun = 2 * MaxCycles
    /\ halted = {}
    /\ run.failed_searches >= 2
    /\ run.search_fault
    /\ run.audit_fault


----------------------------------------------------------------------------
(* When the recovery is entered (Spec).                                    *)

\* the text of the exception the current cycle has caught names a driver
\* or a session, in lower case
NamesDriverOrSession ==
    LET text == Lower(str(cyc.caught))
    IN \/ \E i \in 1..(Len(text) - 5) :
            SubSeq(text, i, i + 5) = <<"d","r","i","v","e","r">>
       \/ \E i \in 1..(Len(text) - 6) :
            SubSeq(text, i, i + 6) = <<"s","e","s","s","i","o","n">>

\* C23: the recovery is entered exactly when the exception a cycle has
\* raised names a driver or a session in its lower-cased text; any other
\* exception of a cycle adds one to the failure counter, starts no recovery,
\* closes no session, and the loop goes on with the next cycle.
C23_RecoveryOnSessionTextOnly ==
    /\ pc = "recover" => (cyc.caught # "none" /\ NamesDriverOrSession)
    /\ cyc.recoveries > 0 => (cyc.caught # "none" /\ NamesDriverOrSession)
    /\ (cyc.caught # "none" /\ NamesDriverOrSession)
         => (pc = "recover" \/ cyc.recoveries = 1)
    /\ (cyc.caught # "none" /\ ~NamesDriverOrSession)
         => /\ cyc.fail_incr >= 1
            /\ cyc.recoveries = 0
            /\ cyc.quits = 0
            /\ pc \in {"loop", "summary", "run_done"}

C23_Witness ==
    /\ pc = "loop"
    /\ cyc.caught = "driver"
    /\ cyc.recoveries = 1
    /\ run.begun["pc"] = 1
    /\ run.pc_cycles = 2


----------------------------------------------------------------------------
(* A failed recovery and the other device profile (Spec).                  *)

\* the device profiles whose loop a failed recovery has ended
HaltedModes == {h.mode : h \in halted}

\* C24: a failed recovery ends the loop of its own device profile only:
\* when the desktop recovery has failed and the mobile one has not, the
\* mobile loop has begun every one of its cycles at the end of run, and the
\* final summary has been printed.
C24_HaltIsPerProfile ==
    (pc = "run_done" /\ ~run.defaulted /\ HaltedModes = {"pc"})
      => /\ run.begun["mobile"] = run.mobile_cycles
         /\ obs.summaries = 1

C24_Witness ==
    /\ pc = "run_done"
    /\ HaltedModes = {"pc"}
    /\ run.pc_cycles = MaxCycles
    /\ run.begun["pc"] = 1
    /\ run.mobile_cycles = MaxCycles
    /\ run.begun["mobile"] = MaxCycles
    /\ obs.summaries = 1


----------------------------------------------------------------------------
(* The delays between the attempts (SpecApi).                              *)

\* the failed attempts of the current call of generate_search_query that
\* another attempt follows
FailedBeforeLast ==
    {i \in 1..Len(gen.outcomes) : gen.outcomes[i] # "valid" /\ i < gen_max_retries}

\* C25: in generate_search_query every failed attempt that another attempt
\* follows is followed by the exponential backoff, 1 s after the first and
\* 2 s after the second, whether the service raised an error or the answer
\* failed the validation; nothing is slept after the third attempt.
C25_BackoffAfterEveryFailure ==
    pc = "generate_done"
      => gen.sleeps = [i \in 1..Cardinality(FailedBeforeLast) |-> Pow2(i - 1)]


\* C26: in execute_search the delay of 2 s lies between a failed attempt
\* and the next attempt only: a call that ends after j attempts, with a
\* success or with the failure of the last attempt, has slept j - 1 times.
C26_DelayBetweenAttemptsOnly ==
    pc = "search_done"
      => srch.sleeps = [i \in 1..(Len(srch.outcomes) - 1) |-> retry_delay]


----------------------------------------------------------------------------
(* The proxy of an account (SpecAccounts).                                 *)

\* the pool entry of the account processed as number i (from 1)
RotatedProxy(i) ==
    IF proxies = <<>> THEN NoProxy ELSE proxies[((i - 1) % Len(proxies)) + 1]

\* C27: the account processed as number i (from 0) uses the pool entry
\* i mod N of a pool of N >= 1 proxies, its desktop and its mobile sessions
\* are opened with that one proxy, and with an empty pool every session is
\* opened unrouted.
C27_AccountUsesRotatedProxy ==
    \A k \in 1..Len(sessions) :
       sessions[k].owner > 0 => sessions[k].proxy = RotatedProxy(sessions[k].owner)


\* C28: the "Stay signed in?" prompt is dismissed only if it is there: when
\* the e-mail address and the password are accepted and no prompt appears,
\* login_to_account reports success and the cycles of the account are run.
C28_LoginWithoutPrompt ==
    acct.page = "accepted" => acct.logged_in


----------------------------------------------------------------------------
(* The threads of the GUI (SpecGui).                                       *)

\* C29: the worker threads of the GUI, run_agent and run_test, reach the
\* window through the message queue only: none of them reads or writes the
\* log text, the status variable, the progress variable or a button itself.
C29_WorkersUseQueueOnly ==
    obs.direct \cap {"log", "status_var", "progress_var", "start_button",
                     "stop_button"} = {}


----------------------------------------------------------------------------
(* The counters of run (Spec).                                             *)

\* C30: every cycle begun is counted exactly once: no cycle adds to both the
\* success counter and the failure counter, and at the end of run the two
\* counters add up to the number of cycles begun.
C30_CountedOnce ==
    /\ cyc.succ_incr + cyc.fail_incr <= 1
    /\ pc = "run_done" => run.successful_searches + run.failed_searches = CyclesBegun


----------------------------------------------------------------------------
(* What execute_search hands to run (Spec).                                *)

\* C31: execute_search never raises to its caller: every failure of the
\* session during an attempt, a dead driver included, is caught in the retry
\* loop; a call whose attempts all fail returns False with the text "error:
\* all retries failed", and the exception handler of a cycle is never
\* entered with a failure of the search.
C31_SearchNeverRaises ==
    /\ search_result.status # "raised"
    /\ (pc = "search_done" /\ \A i \in 1..Len(srch.outcomes) : srch.outcomes[i] # "ok")
         => /\ search_result.status = "returned"
            /\ ~search_result.success
            /\ search_result.url = all_retries_failed
    /\ (pc = "except" /\ exc \notin {"empty_range", "generate"}) => cyc.audit_fault

C31_Witness ==
    /\ pc = "search_done"
    /\ caller = "run"
    /\ srch.outcomes = <<"session", "session", "session">>
    /\ ~sessions[DriverOf(srch.mode)].alive
    /\ run.begun["pc"] = 2
    /\ ~search_result.success


----------------------------------------------------------------------------
(* The life of a browser session (SpecAccounts).                           *)

\* C32: no session leaks: no session is closed twice, a session that
\* neither self.pc_driver nor self.mobile_driver refers to any more has been
\* closed, and when run_with_multiple_accounts has returned every session
\* is closed but the two that cleanup will close.
C32_NoSessionLeak ==
    \A k \in 1..Len(sessions) :
       /\ sessions[k].quits <= 1
       /\ k \notin {pc_driver, mobile_driver} => sessions[k].quits = 1

\* the positions of the worker followed inside a cycle: between
\* generate_search_query and the end of the countdown
InCycle == {"generate", "generate_done", "search", "search_done", "w_delay"}

\* C33: at most one GUI worker executes search cycles at any time: the
\* thread of a later Start is never inside a cycle while the thread of the
\* first Start is still inside one.
C33_OneWorkerInCycles == ~(gui.later = "w_cycle" /\ pc \in InCycle)

\* C34: every GUI run that is started ends with exactly one complete
\* message, and once it is processed the GUI is idle again: when the worker
\* of the only Start has ended and the queue is drained, one complete
\* message was put, is_running is false, Start is enabled and Stop is
\* disabled; this includes the run whose agent construction fails.
C34_RunEndsComplete ==
    (pc = "w_ended" /\ gui.starts = 1 /\ message_queue = <<>>)
       => /\ obs.completes = 1
          /\ ~gui.is_running
          /\ gui.start_button = "normal"
          /\ gui.stop_button = "disabled"

\* C35: the desktop and the mobile history always hold the same sequence
\* of queries: in every reachable state pc_search_history equals
\* mobile_search_history.
C35_HistoriesEqual == pc_search_history = mobile_search_history

C35_Witness ==
    /\ pc = "generate_done"
    /\ gen_result.status = "returned"
    /\ gen_result.query_type # "fallback"
    /\ Len(accepted) > history_limit
    /\ Len(mobile_search_history) = history_limit
    /\ mobile_search_history[history_limit] = gen_result.query
    /\ mobile_search_history = pc_search_history

\* a step of a call of generate_search_query that accepts no query: an
\* attempt that ends in an error or in a rejected answer, or the fallback
NotAccepting ==
    /\ pc = "generate"
    /\ \/ gen'.outcomes = gen.outcomes
       \/ gen'.outcomes[Len(gen'.outcomes)] # "valid"

\* C36: a call of generate_search_query that ends in the fallback leaves
\* both histories unchanged: no step of a call that accepts no query (a
\* failed attempt, a rejected answer, the fallback) changes
\* pc_search_history or mobile_search_history.
C36_FallbackKeepsHistory ==
    [][NotAccepting => UNCHANGED <<pc_search_history, mobile_search_history>>]_vars

C36_Witness ==
    /\ pc = "generate_done"
    /\ caller = "direct"
    /\ gen_result.query_type = "fallback"
    /\ gen.outcomes = <<"invalid", "error", "invalid">>
    /\ Len(pc_search_history) = 2
    /\ pc_search_history = accepted
    /\ mobile_search_history = accepted

\* the run call of the account loop has returned for the profile named
RunReturned(mode) ==
    /\ pc = IF mode = "pc" THEN "acct_close_pc" ELSE "acct_close_mobile"
    /\ acct.logged_in

============================================================================
